---- MODULE Spec2Model ----
(***************************************************************************)
(* Store provisioning engine (server/integrations/store_provisioner.py)    *)
(* with its two collaborators (helm_charts.py, kubernetes.py) and the      *)
(* Flask routes (server/routes/*.py), as a state machine.                  *)
(*                                                                         *)
(* Every request is served by its own thread (Flask, threaded) and every   *)
(* create launches a daemon thread running _provision_store.  A step of    *)
(* the model is one critical section under StoreProvisioner._lock, or one  *)
(* blocking call to helm / the cluster, or one unlocked access to the      *)
(* registry.  What a call returns is visible in out in the state the       *)
(* returning step leads to.                                               *)
(***************************************************************************)
EXTENDS Integers, Sequences, FiniteSets, TLC

\* ------------------------------------------------------------- bounds
MaxThreads == 2      \* request threads running at the same time
MaxCreates == 2      \* records create_store builds in one run of the process
MaxClock == 1        \* the readings of datetime.utcnow() run from 0 to MaxClock
MaxCalls == 2        \* requests arriving, and restarts of the process

Threads == 1..MaxThreads
Ids == 1..MaxCreates

\* ------------------------------------------------------------- values
\* Python's None for an optional string or mapping; strings, urls, messages
\* and credentials are non-empty tuples, so None is the only falsy value
None == <<>>

\* Python truthiness of an optional value: "if url:", "if error:", "if store:"
Truthy(v) == v # None

\* request names as the caller types them: sequences of characters
RawNames == { <<"A", " ", "b">>, <<"a", "_", "b">>, <<"a", "-", "b">> }

\* the store types a caller may pass
RawTypes == { "woocommerce", "WooCommerce", "shopify" }

\* STORE_DOMAIN_SUFFIX default
DomainSuffix == ".local"

\* StoreStatus
PENDING == "pending"
PROVISIONING == "provisioning"
READY == "ready"
FAILED == "failed"
DELETING == "deleting"
DELETED == "deleted"
StoreStatus == { PENDING, PROVISIONING, READY, FAILED, DELETING, DELETED }

\* StoreType
WOOCOMMERCE == "woocommerce"

\* str.lower() on one character / on a type string
LowerChar(c) ==
  CASE c = "A" -> "a"
    [] c = "B" -> "b"
    [] c = "X" -> "x"
    [] OTHER -> c

LowerType(t) ==
  CASE t = "WooCommerce" -> "woocommerce"
    [] OTHER -> t

\* name.lower().replace(" ", "-").replace("_", "-")
NormalizeChar(c) ==
  LET l == LowerChar(c)
  IN IF l = " " \/ l = "_" THEN "-" ELSE l

\* the normalization, were underscores left as they are
NormalizeSpacesOnly(raw) ==
  [i \in 1..Len(raw) |-> IF LowerChar(raw[i]) = " " THEN "-" ELSE LowerChar(raw[i])]

Normalize(raw) == [i \in 1..Len(raw) |-> NormalizeChar(raw[i])]

Names == { Normalize(raw) : raw \in RawNames }

\* f"store-{name}"
NamespaceOf(n) == <<"store-">> \o n

\* f"woo-{store_name}"
ReleaseOf(n) == <<"woo-">> \o n

\* f"http://{store_name}{self.domain_suffix}"
GenerateStoreUrl(n) == <<"http://">> \o n \o <<DomainSuffix>>

\* f"{store_name}{self.domain_suffix}"
IngressHost(n) == n \o <<DomainSuffix>>

\* f"http://{ingress_host}"
\* the url, were the scheme https
UrlOfHostSecure(h) == <<"https://">> \o h

UrlOfHost(h) == <<"http://">> \o h

\* ------------------------------------------------------------- messages
\* the result messages of the engine: like every string of the model, a
\* sequence of literal fragments and of the characters of an interpolated name
MsgOnlyWoo == <<"Only 'woocommerce' store type is supported">>
MsgAlreadyExists(n) == <<"Store '">> \o n \o <<"' already exists">>
MsgNotFound == <<"Store not found">>
MsgStillProvisioning == <<"Store is still provisioning. Use force=true to delete anyway.">>
MsgDeleted(n) == <<"Store '">> \o n \o <<"' deleted successfully">>
MsgNsDeleteFailed == <<"Failed to delete namespace: ", "ApiException">>
MsgUninstallFailed == <<"helm uninstall failed">>
MsgUninstallRaised == <<"helm uninstall raised">>
MsgInstallFailed == <<"Failed to install Helm release: ", "helm error">>
MsgInstallRaised == <<"helm install raised">>
MsgDeletionFailed(e) == <<"Deletion failed: ">> \o e
MsgKeyError(n) == <<"KeyError: ">> \o n
MsgRouteOnlyWoo == <<"Only 'woocommerce' store type is currently supported">>

\* "already exists" in error_msg.lower()
ContainsAlreadyExists(msg) ==
  \E i \in 1..Len(msg) : msg[i] = "' already exists"

\* "not found" in error_msg.lower()
ContainsNotFound(msg) ==
  \E i \in 1..Len(msg) : msg[i] = "Store not found"

\* ------------------------------------------------------------- state
VARIABLES
  stores,   \* StoreProvisioner._stores: normalized name -> store record
  ns,       \* cluster: the namespace store-<n> is "absent", "plain" or "managed" (labelled)
  rel,      \* cluster: a helm release woo-<n> exists in store-<n>
  req,      \* the request threads: operation, arguments, position
  task,     \* the provisioning threads, one per record create_store built
  drawn,    \* the number of tokens secrets.token_hex has drawn for record ids
  clock,    \* the last reading of datetime.utcnow()
  calls,    \* the number of requests that have arrived, and of restarts
  out       \* what the step just taken returned to its caller, if it returned

vars == <<stores, ns, rel, req, task, drawn, clock, calls, out>>

DefaultAdminEmail == <<"admin@example.com">>
UnknownAdminEmail == <<"unknown@example.com">>

\* secrets.token_hex(8): the k-th token drawn, unlike every other
TokenHex(k) == <<"token", k>>

\* hashlib.md5(store_name.encode()).hexdigest()[:16]
Md5Id(n) == <<"md5">> \o n

\* the credentials install_woocommerce generates for the k-th record's install
Credentials(k, host) == <<"admin", "admin_password", k, "db_password", k>> \o host

\* a result as the engine returns it, with the status code the route makes of it
Result(ok, err, store, http) ==
  [success |-> ok, error |-> err, store |-> store, http |-> http]

\* what a call returned: the operation and its arguments, the step of the
\* handler that returned, the id of the record a create inserted, what the
\* handler logged or attached on its way (note), and the result; async and
\* clean are those of the returning create and gone those of the returning
\* delete (see IdleReq); raw is the name as the caller typed it, when the
\* call is answered where it arrives; listed is what a reconciliation saw
Returned(op, step, n, ty, force, id, note, res) ==
  [op |-> op, step |-> step, name |-> n, stype |-> ty, force |-> force,
   id |-> id, note |-> note, res |-> res, async |-> TRUE, clean |-> TRUE,
   gone |-> <<>>, raw |-> <<>>, listed |-> {}]

\* the answer to a call where it arrives, with the name as typed
Arrived(r, raw) == [r EXCEPT !.raw = raw]

NoOut == Returned("none", "", <<>>, "", FALSE, 0, None, Result(FALSE, None, None, 0))

\* a thread's locals.  clean is history, not a local: it says that since this
\* create inserted its record nothing but insertions and the first update of
\* a provisioning thread has written the registry entry of its name.  stype
\* is the store type as passed; gone lists what the calls of a delete
\* reported as already deleted
IdleReq ==
  [op |-> "idle", pc |-> "idle", name |-> <<>>, stype |-> "", force |-> FALSE,
   async |-> TRUE, id |-> 0, err |-> None, copy |-> None, clean |-> TRUE,
   gone |-> <<>>]

\* the entry of n is written by a delete, by the last update of a
\* provisioning thread or by simulate-ready: the creates between their
\* insertion and their return under that name are no longer clean
Disturb(R, n) ==
  [u \in DOMAIN R |->
     IF R[u].pc = "c_return" /\ R[u].name = n THEN [R[u] EXCEPT !.clean = FALSE]
                                              ELSE R[u]]

NoTask == [pc |-> "none", out |-> "", name |-> <<>>]

\* the readings datetime.utcnow() may give next: the clock has a finite
\* resolution, so two readings may be equal
NowSet == {clock} \cup (IF clock < MaxClock THEN {clock + 1} ELSE {})

\* ------------------------------------------------------------- reconciliation
\* ns.metadata.creation_timestamp of a labelled namespace: all of them were
\* left by an earlier run, before the first reading of the clock
NamespaceCreatedAt(n) == 0

\* the synthesized record, were it to start as provisioning
SyncedRecordProvisioning(n, created) ==
  [id |-> Md5Id(n), name |-> n, type |-> WOOCOMMERCE, status |-> PROVISIONING,
   url |-> GenerateStoreUrl(n), namespace |-> NamespaceOf(n),
   admin_email |-> UnknownAdminEmail, created_at |-> created,
   updated_at |-> created, error |-> None, credentials |-> None]

\* the record _sync_stores_from_cluster synthesizes for a managed namespace
SyncedRecord(n, created) ==
  [id |-> Md5Id(n), name |-> n, type |-> WOOCOMMERCE, status |-> READY,
   url |-> GenerateStoreUrl(n), namespace |-> NamespaceOf(n),
   admin_email |-> UnknownAdminEmail, created_at |-> created,
   updated_at |-> created, error |-> None, credentials |-> None]

\* list_store_namespaces selects by the managed-by label alone, and the loop
\* keeps the namespaces that carry a store-name label: "managed" is such a
\* namespace named store-<n>, "misnamed" one with another name (labels are
\* free: create_namespace itself lets its labels argument replace store-name)
Labelled(kind) == kind \in {"managed", "misnamed"}

\* ns.metadata.name of the namespace labelled store-name=<n>
NamespaceName(kind, n) ==
  IF kind = "misnamed" THEN <<"shop-">> \o n ELSE NamespaceOf(n)

\* the reconciliation, were a namespace of unknown type to end the loop
SyncOverUntilUnknown(names, nsState, relState, listed) ==
  IF \E n \in names : Labelled(nsState[n]) /\ ~(n \in listed /\ relState[n])
    THEN [n \in {} |-> None]
    ELSE [n \in { m \in names : Labelled(nsState[m]) } |->
            [SyncedRecord(n, NamespaceCreatedAt(n))
               EXCEPT !.namespace = NamespaceName(nsState[n], n)]]

\* the loop of _sync_stores_from_cluster over the namespaces the cluster
\* holds for names: only those carrying the labels are enumerated, and one
\* whose releases helm cannot list, or none of whose releases is a
\* woocommerce one, is skipped
SyncOver(names, nsState, relState, listed) ==
  LET restored == { n \in names : /\ Labelled(nsState[n])
                                  /\ n \in listed
                                  /\ relState[n] }
  IN [n \in restored |->
        [SyncedRecord(n, NamespaceCreatedAt(n))
           EXCEPT !.namespace = NamespaceName(nsState[n], n)]]

\* _sync_stores_from_cluster: listed are the managed namespaces whose releases
\* helm could list; a namespace is restored when one of its releases is a
\* woocommerce chart or is named woo-...
SyncStoresFromCluster(nsState, relState, listed) ==
  SyncOver(Names, nsState, relState, listed)

\* what the construction of the provisioner leaves: listed are the managed
\* namespaces whose releases helm could list
Synced(op, listed) ==
  [Returned(op, "sync", <<>>, "", FALSE, 0, None, Result(TRUE, None, None, 0))
     EXCEPT !.listed = listed]

\* ------------------------------------------------------------- registry
\* the update, were the error assigned whatever is passed
UpdateStoreStatusClearingError(S, n, status, url, error, credentials, now) ==
  IF n \in DOMAIN S
    THEN [S EXCEPT ![n] =
            [@ EXCEPT !.status = status,
                      !.updated_at = now,
                      !.url = IF Truthy(url) THEN url ELSE @,
                      !.error = error,
                      !.credentials = IF Truthy(credentials) THEN credentials ELSE @]]
    ELSE S

\* the update, were created_at refreshed with updated_at
UpdateStoreStatusTouchingCreated(S, n, status, url, error, credentials, now) ==
  IF n \in DOMAIN S
    THEN [S EXCEPT ![n] =
            [@ EXCEPT !.status = status,
                      !.updated_at = now,
                      !.created_at = now,
                      !.url = IF Truthy(url) THEN url ELSE @,
                      !.error = IF Truthy(error) THEN error ELSE @,
                      !.credentials = IF Truthy(credentials) THEN credentials ELSE @]]
    ELSE S

\* the update, were the error not stored
UpdateStoreStatusDroppingError(S, n, status, url, error, credentials, now) ==
  IF n \in DOMAIN S
    THEN [S EXCEPT ![n] =
            [@ EXCEPT !.status = status,
                      !.updated_at = now,
                      !.url = IF Truthy(url) THEN url ELSE @,
                      !.credentials = IF Truthy(credentials) THEN credentials ELSE @]]
    ELSE S

\* _update_store_status under the lock, reading the clock as now
UpdateStoreStatus(S, n, status, url, error, credentials, now) ==
  IF n \in DOMAIN S
    THEN [S EXCEPT ![n] =
            [@ EXCEPT !.status = status,
                      !.updated_at = now,
                      !.url = IF Truthy(url) THEN url ELSE @,
                      !.error = IF Truthy(error) THEN error ELSE @,
                      !.credentials = IF Truthy(credentials) THEN credentials ELSE @]]
    ELSE S

\* the clock after _update_store_status: utcnow() is read only for a known name
ClockAfterUpdate(S, n, now) == IF n \in DOMAIN S THEN now ELSE clock

\* get_store: a copy of the record, or None
GetStoreCopy(S, n) == IF n \in DOMAIN S THEN <<S[n]>> ELSE None

\* the eviction, were the record kept
EvictNothing(S, n) == S

\* del self._stores[name]
Evict(S, n) == [m \in DOMAIN S \ {n} |-> S[m]]

\* self._stores[name] = record
Insert(S, n, rec) == [m \in DOMAIN S \cup {n} |-> IF m = n THEN rec ELSE S[m]]

\* the record, were the url computed beforehand put into it
NewRecordWithUrl(k, n, created, updated) ==
  [id |-> TokenHex(k), name |-> n, type |-> WOOCOMMERCE, status |-> PENDING,
   url |-> GenerateStoreUrl(n), namespace |-> NamespaceOf(n),
   admin_email |-> DefaultAdminEmail, created_at |-> created,
   updated_at |-> updated, error |-> None, credentials |-> None]

\* the record create_store builds
NewRecord(k, n, created, updated) ==
  [id |-> TokenHex(k), name |-> n, type |-> WOOCOMMERCE, status |-> PENDING,
   url |-> None, namespace |-> NamespaceOf(n),
   admin_email |-> DefaultAdminEmail, created_at |-> created,
   updated_at |-> updated, error |-> None, credentials |-> None]

\* the name test, were a record being deleted taken for gone
NameTakenUnlessDeleting(S, n) ==
  /\ n \in DOMAIN S
  /\ S[n].status \notin {DELETED, FAILED, DELETING}

\* create_store's test under the lock: an active record bars the name
NameTaken(S, n) ==
  /\ n \in DOMAIN S
  /\ S[n].status \notin {DELETED, FAILED}

\* ------------------------------------------------------------- initial state
TypeOK ==
  /\ DOMAIN stores \subseteq Names
  /\ \A n \in DOMAIN stores : stores[n].status \in StoreStatus
  /\ ns \in [Names -> {"absent", "plain", "managed"}]
  /\ rel \in [Names -> BOOLEAN]
  /\ drawn \in 0..MaxCreates
  /\ clock \in 0..MaxClock

\* the state after StoreProvisioner.__init__: some stores of an earlier run
\* may be left in the cluster, and the registry is rebuilt from them
Init ==
  /\ ns \in [Names -> {"absent", "managed"}]
  /\ rel \in [Names -> BOOLEAN]
  /\ \A n \in Names : rel[n] => ns[n] = "managed"
  /\ \E listed \in SUBSET Names :
       /\ stores = SyncStoresFromCluster(ns, rel, listed)
       /\ out = Synced("start", listed)
  /\ req = [t \in Threads |-> IdleReq]
  /\ task = [k \in Ids |-> NoTask]
  /\ drawn = 0
  /\ clock = 0
  /\ calls = 0

\* the process stops at any moment, its request threads and its daemon
\* threads with it, and is started again: the registry is rebuilt from what
\* the cluster holds by then
Restart ==
  /\ calls < MaxCalls
  /\ calls' = calls + 1
  /\ \E listed \in SUBSET Names :
       /\ stores' = SyncStoresFromCluster(ns, rel, listed)
       /\ out' = Synced("restart", listed)
  /\ req' = [t \in Threads |-> IdleReq]
  /\ task' = [k \in Ids |-> NoTask]
  /\ UNCHANGED <<ns, rel, drawn, clock>>

\* a request arrives and is served by the first free thread
MayArrive(t) ==
  /\ calls < MaxCalls
  /\ calls' = calls + 1
  /\ req[t].op = "idle"
  /\ \A u \in Threads : u < t => req[u].op # "idle"

\* the creates that have passed the name test and not yet built their record
CreatesAhead ==
  Cardinality({ t \in Threads : req[t].pc = "c_insert" })

\* ------------------------------------------------------------- create
\* the status code routes/create_store.py makes of the engine's result
HttpOfCreate(res) ==
  IF res.success THEN 201
  ELSE IF ContainsAlreadyExists(res.error) THEN 409 ELSE 500

CreateResult(res) == [res EXCEPT !.http = HttpOfCreate(res)]

\* the type test, were every type let through
TypeSupportedAny(ty) == TRUE

\* the engine accepts the type: store_type.lower() == "woocommerce"
TypeSupported(ty) == LowerType(ty) = WOOCOMMERCE

\* POST /stores, or a direct call of StoreProvisioner.create_store.  The route
\* answers 400 to any type but 'woocommerce' before it calls the engine and
\* always asks for the asynchronous mode; the engine normalizes the name,
\* rejects an unsupported type (from there on the type is
\* StoreType.WOOCOMMERCE) and, under the lock, rejects a name that an active
\* record bars.
CreateCall(t) ==
  /\ MayArrive(t)
  /\ \E raw \in RawNames, ty \in RawTypes, via \in {"http", "engine"}, async \in BOOLEAN :
       /\ via = "http" => async
       /\ LET n == Normalize(raw)
          IN IF via = "http" /\ ty # WOOCOMMERCE
               THEN /\ out' = Arrived(Returned("create", "route", n, ty, FALSE, 0, None,
                                       Result(FALSE, MsgRouteOnlyWoo, None, 400)), raw)
                    /\ UNCHANGED req
             ELSE IF ~TypeSupported(ty)
               THEN /\ out' = Arrived(Returned("create", "type", n, ty, FALSE, 0, None,
                                       CreateResult(Result(FALSE, MsgOnlyWoo, None, 0))), raw)
                    /\ UNCHANGED req
             ELSE IF NameTaken(stores, n)
               THEN /\ out' = Arrived(Returned("create", "check", n, ty, FALSE, 0, None,
                            CreateResult(Result(FALSE, MsgAlreadyExists(n), None, 0))), raw)
                    /\ UNCHANGED req
             ELSE /\ drawn + CreatesAhead < MaxCreates
                  /\ req' = [req EXCEPT ![t] =
                       [IdleReq EXCEPT !.op = "create", !.pc = "c_insert", !.name = n,
                                       !.stype = ty, !.async = async]]
                  /\ out' = NoOut
  /\ UNCHANGED <<stores, ns, rel, task, drawn, clock>>

\* the record is built (a fresh token, two readings of the clock) and, under
\* the lock, inserted; then thread.start(), or the inline call of
\* _provision_store, makes the provisioning of the name runnable
CreateInsert(t) ==
  /\ req[t].pc = "c_insert"
  /\ \E created \in NowSet :
       \E updated \in {created} \cup (IF created < MaxClock THEN {created + 1} ELSE {}) :
         /\ stores' = Insert(stores, req[t].name,
                             NewRecord(drawn + 1, req[t].name, created, updated))
         /\ clock' = updated
  /\ drawn' = drawn + 1
  /\ task' = [task EXCEPT ![drawn + 1] =
                [pc |-> "p_start", out |-> "", name |-> req[t].name]]
  /\ req' = [req EXCEPT ![t].pc = "c_return", ![t].id = drawn + 1]
  /\ out' = NoOut
  /\ UNCHANGED <<ns, rel, calls>>

\* return {"success": True, "store": self._stores[normalized_name].copy()}:
\* the registry is read without the lock, and a missing key raises KeyError
\* (a 500 through the route); the inline call has finished by then
CreateReturn(t) ==
  /\ req[t].pc = "c_return"
  /\ req[t].async \/ task[req[t].id].pc = "done"
  /\ LET n == req[t].name
     IN out' = [Returned("create", "return", n, WOOCOMMERCE, FALSE, req[t].id, None,
                  IF n \in DOMAIN stores
                    THEN CreateResult(Result(TRUE, None, <<stores[n]>>, 0))
                    ELSE Result(FALSE, MsgKeyError(n), None, 500))
                  EXCEPT !.async = req[t].async, !.clean = req[t].clean]
  /\ req' = [req EXCEPT ![t] = IdleReq]
  /\ UNCHANGED <<stores, ns, rel, task, drawn, clock, calls>>

\* ------------------------------------------------------------- provisioning
\* _provision_store: self._update_store_status(store_name, PROVISIONING)
ProvStart(k) ==
  /\ task[k].pc = "p_start"
  /\ \E now \in NowSet :
       /\ stores' = UpdateStoreStatus(stores, task[k].name, PROVISIONING,
                                      None, None, None, now)
       /\ clock' = ClockAfterUpdate(stores, task[k].name, now)
  /\ task' = [task EXCEPT ![k].pc = "p_install"]
  /\ out' = NoOut
  /\ UNCHANGED <<ns, rel, req, drawn, calls>>

\* helm install woo-<n> <chart> --namespace store-<n> --create-namespace --wait:
\* it succeeds only where no release of that name exists and leaves the
\* release in a namespace it created unlabelled if it was missing; a failed
\* install may leave the namespace and a failed release behind; the call may
\* also raise
ProvInstall(k) ==
  /\ task[k].pc = "p_install"
  /\ LET n == task[k].name
         installed == /\ ns' = [ns EXCEPT ![n] = IF @ = "absent" THEN "plain" ELSE @]
                      /\ rel' = [rel EXCEPT ![n] = TRUE]
     IN \/ /\ ~rel[n]
           /\ installed
           /\ task' = [task EXCEPT ![k].pc = "p_finish", ![k].out = "ok"]
        \/ /\ \/ installed
              \/ UNCHANGED <<ns, rel>>
           /\ task' = [task EXCEPT ![k].pc = "p_finish", ![k].out = "fail"]
        \/ /\ UNCHANGED <<ns, rel>>
           /\ task' = [task EXCEPT ![k].pc = "p_finish", ![k].out = "raise"]
  /\ out' = NoOut
  /\ UNCHANGED <<stores, req, drawn, clock, calls>>

\* the end of the task, were a failure left without its status update
ProvFinishSilent(k) ==
  /\ task[k].pc = "p_finish"
  /\ LET n == task[k].name
     IN \E now \in NowSet :
          /\ stores' =
               IF task[k].out = "ok"
                 THEN UpdateStoreStatus(stores, n, READY, UrlOfHost(IngressHost(n)),
                                        None, Credentials(k, IngressHost(n)), now)
                 ELSE stores
          /\ clock' = IF task[k].out = "ok" THEN ClockAfterUpdate(stores, n, now)
                                           ELSE clock
  /\ task' = [task EXCEPT ![k] = [NoTask EXCEPT !.pc = "done"]]
  /\ req' = Disturb(req, task[k].name)
  /\ out' = NoOut
  /\ UNCHANGED <<ns, rel, drawn, calls>>

\* the last status update of _provision_store: READY with url and
\* credentials, or, from the except clause, FAILED with the error
ProvFinish(k) ==
  /\ task[k].pc = "p_finish"
  /\ LET n == task[k].name
     IN \E now \in NowSet :
          /\ stores' =
               IF task[k].out = "ok"
                 THEN UpdateStoreStatus(stores, n, READY, UrlOfHost(IngressHost(n)),
                                        None, Credentials(k, IngressHost(n)), now)
                 ELSE UpdateStoreStatus(stores, n, FAILED, None,
                                        IF task[k].out = "fail" THEN MsgInstallFailed
                                                                ELSE MsgInstallRaised,
                                        None, now)
          /\ clock' = ClockAfterUpdate(stores, n, now)
  /\ task' = [task EXCEPT ![k] = [NoTask EXCEPT !.pc = "done"]]
  /\ req' = Disturb(req, task[k].name)
  /\ out' = NoOut
  /\ UNCHANGED <<ns, rel, drawn, calls>>

\* ------------------------------------------------------------- delete
\* the status code routes/get_store.py makes of the engine's result
HttpOfDelete(res) ==
  IF res.success THEN 200
  ELSE IF ContainsNotFound(res.error) THEN 404 ELSE 500

DeleteResult(res) == [res EXCEPT !.http = HttpOfDelete(res)]

\* the rejection, were force not looked at
StillProvisioningAnyForce(store, force) == store.status = PROVISIONING

\* the rejection, were the status tested the pending one
StillProvisioningOnPending(store, force) == store.status = PENDING /\ ~force

\* store["status"] == StoreStatus.PROVISIONING.value and not force
StillProvisioning(store, force) == store.status = PROVISIONING /\ ~force

\* DELETE /stores/<name> (the route passes no force), or a direct call of
\* StoreProvisioner.delete_store: the record is looked up under the lock and
\* the two rejections are decided on that copy
DeleteCall(t) ==
  /\ MayArrive(t)
  /\ \E raw \in RawNames, force \in BOOLEAN :
       LET n == Normalize(raw)
           store == GetStoreCopy(stores, n)
       IN IF ~Truthy(store)
            THEN /\ out' = Arrived(Returned("delete", "lookup", n, "", force, 0, None,
                              DeleteResult(Result(FALSE, MsgNotFound, None, 0))), raw)
                 /\ UNCHANGED req
          ELSE IF StillProvisioning(store[1], force)
            THEN /\ out' = Arrived(Returned("delete", "lookup", n, "", force, 0, None,
                              DeleteResult(Result(FALSE, MsgStillProvisioning, None, 0))), raw)
                 /\ UNCHANGED req
          ELSE /\ req' = [req EXCEPT ![t] =
                    [IdleReq EXCEPT !.op = "delete", !.pc = "d_mark", !.name = n,
                                    !.force = force, !.copy = store]]
               /\ out' = NoOut
  /\ UNCHANGED <<stores, ns, rel, task, drawn, clock>>

\* self._update_store_status(normalized_name, DELETING)
DeleteMark(t) ==
  /\ req[t].pc = "d_mark"
  /\ \E now \in NowSet :
       /\ stores' = UpdateStoreStatus(stores, req[t].name, DELETING,
                                      None, None, None, now)
       /\ clock' = ClockAfterUpdate(stores, req[t].name, now)
  /\ req' = Disturb([req EXCEPT ![t].pc = "d_uninstall"], req[t].name)
  /\ out' = NoOut
  /\ UNCHANGED <<ns, rel, task, drawn, calls>>

\* helm uninstall woo-<n>: it removes the release, or reports the release
\* not found (success, already_deleted), or fails, which delete_store only
\* logs as a warning
DeleteUninstall(t) ==
  /\ req[t].pc = "d_uninstall"
  /\ LET n == req[t].name
     IN \/ /\ rel[n]
           /\ rel' = [rel EXCEPT ![n] = FALSE]
           /\ req' = [req EXCEPT ![t].pc = "d_namespace"]
        \/ /\ ~rel[n]
           /\ UNCHANGED rel
           /\ req' = [req EXCEPT ![t].pc = "d_namespace",
                                 ![t].gone = Append(@, "release")]
        \/ /\ UNCHANGED rel
           /\ req' = [req EXCEPT ![t].pc = "d_namespace", ![t].err = MsgUninstallFailed]
  /\ out' = NoOut
  /\ UNCHANGED <<stores, ns, task, drawn, clock, calls>>

\* self.k8s.delete_namespace: the namespace goes, and the release stored in
\* it with it; a missing namespace is a success (already_deleted)
DeleteNamespace(t) ==
  /\ req[t].pc = "d_namespace"
  /\ LET n == req[t].name
     IN \/ /\ ns[n] # "absent"
           /\ ns' = [ns EXCEPT ![n] = "absent"]
           /\ rel' = [rel EXCEPT ![n] = FALSE]
           /\ req' = [req EXCEPT ![t].pc = "d_deleted"]
        \/ /\ ns[n] = "absent"
           /\ UNCHANGED <<ns, rel>>
           /\ req' = [req EXCEPT ![t].pc = "d_deleted",
                                 ![t].gone = Append(@, "namespace")]
  /\ out' = NoOut
  /\ UNCHANGED <<stores, task, drawn, clock, calls>>

\* the except clause, entered when the uninstall call raises or when the
\* namespace delete fails for another reason than not-found: FAILED with
\* "Deletion failed: ...", and the failure result
DeleteFail(t) ==
  /\ req[t].pc \in {"d_uninstall", "d_namespace"}
  /\ LET n == req[t].name
         e == IF req[t].pc = "d_uninstall" THEN MsgUninstallRaised
                                             ELSE MsgNsDeleteFailed
     IN /\ \E now \in NowSet :
             /\ stores' = UpdateStoreStatus(stores, n, FAILED, None,
                                            MsgDeletionFailed(e), None, now)
             /\ clock' = ClockAfterUpdate(stores, n, now)
        /\ out' = [Returned("delete", "except", n, "", req[t].force, 0, req[t].err,
                            DeleteResult(Result(FALSE, e, None, 0)))
                     EXCEPT !.gone = req[t].gone]
  /\ req' = Disturb([req EXCEPT ![t] = IdleReq], req[t].name)
  /\ UNCHANGED <<ns, rel, task, drawn, calls>>

\* self._update_store_status(normalized_name, DELETED)
DeleteMarkDeleted(t) ==
  /\ req[t].pc = "d_deleted"
  /\ \E now \in NowSet :
       /\ stores' = UpdateStoreStatus(stores, req[t].name, DELETED,
                                      None, None, None, now)
       /\ clock' = ClockAfterUpdate(stores, req[t].name, now)
  /\ req' = Disturb([req EXCEPT ![t].pc = "d_evict"], req[t].name)
  /\ out' = NoOut
  /\ UNCHANGED <<ns, rel, task, drawn, calls>>

\* with self._lock: del self._stores[name] if present; then the success result
DeleteEvict(t) ==
  /\ req[t].pc = "d_evict"
  /\ LET n == req[t].name
     IN /\ stores' = IF n \in DOMAIN stores THEN Evict(stores, n) ELSE stores
        /\ out' = [Returned("delete", "evict", n, "", req[t].force, 0, req[t].err,
                            DeleteResult(Result(TRUE, MsgDeleted(n), None, 0)))
                     EXCEPT !.gone = req[t].gone]
  /\ req' = Disturb([req EXCEPT ![t] = IdleReq], req[t].name)
  /\ UNCHANGED <<ns, rel, task, drawn, clock, calls>>

\* ------------------------------------------------------------- reads
\* GET /stores/<name>: get_store under the lock; 404 when there is no record
GetStore(t) ==
  /\ MayArrive(t)
  /\ \E raw \in RawNames :
       LET n == Normalize(raw)
           store == GetStoreCopy(stores, n)
       IN out' = Arrived(Returned("get", "lookup", n, "", FALSE, 0, None,
                    Result(Truthy(store), None, store,
                           IF Truthy(store) THEN 200 ELSE 404)), raw)
  /\ UNCHANGED <<stores, ns, rel, req, task, drawn, clock>>

\* GET /stores: list_stores copies every record under the lock
ListStores(t) ==
  /\ MayArrive(t)
  /\ out' = Returned("list", "lookup", <<>>, "", FALSE, 0, None,
                     Result(TRUE, None, <<stores>>, 200))
  /\ UNCHANGED <<stores, ns, rel, req, task, drawn, clock>>

\* the test, were the resources enumerated for every record
WantsResourcesAlways(store) == TRUE

\* store["status"] in [PROVISIONING, READY]
WantsResources(store) == store.status \in {PROVISIONING, READY}

\* GET /stores/<name>/status: get_store_status looks the record up; only a
\* provisioning or ready store has its cluster resources enumerated
StatusCall(t) ==
  /\ MayArrive(t)
  /\ \E raw \in RawNames :
       LET n == Normalize(raw)
           store == GetStoreCopy(stores, n)
       IN IF ~Truthy(store)
            THEN /\ out' = Arrived(Returned("status", "lookup", n, "", FALSE, 0, None,
                              Result(FALSE, MsgNotFound, None, 404)), raw)
                 /\ UNCHANGED req
          ELSE IF WantsResources(store[1])
            THEN /\ req' = [req EXCEPT ![t] =
                      [IdleReq EXCEPT !.op = "status", !.pc = "g_resources",
                                      !.name = n, !.copy = store]]
                 /\ out' = NoOut
          ELSE /\ out' = Arrived(Returned("status", "lookup", n, "", FALSE, 0, None,
                            Result(TRUE, None, store, 200)), raw)
               /\ UNCHANGED req
  /\ UNCHANGED <<stores, ns, rel, task, drawn, clock>>

\* self.k8s.get_store_resources: the lists of the namespace, or a
\* namespace_not_found entry, are attached to the copy; an exception is
\* logged and the field left out
StatusResources(t) ==
  /\ req[t].pc = "g_resources"
  /\ LET n == req[t].name
     IN \E attached \in {<<"resources">>, <<"namespace_not_found">>, None} :
          /\ attached = <<"resources">> => ns[n] # "absent"
          /\ attached = <<"namespace_not_found">> => ns[n] = "absent"
          /\ out' = Returned("status", "resources", n, "", FALSE, 0, attached,
                             Result(TRUE, None, req[t].copy, 200))
  /\ req' = [req EXCEPT ![t] = IdleReq]
  /\ UNCHANGED <<stores, ns, rel, task, drawn, clock, calls>>

\* ------------------------------------------------------------- simulate-ready
\* POST /stores/<name>/simulate-ready: 404 without a record
SimulateCall(t) ==
  /\ MayArrive(t)
  /\ \E raw \in RawNames :
       LET n == Normalize(raw)
       IN IF ~Truthy(GetStoreCopy(stores, n))
            THEN /\ out' = Arrived(Returned("simulate", "lookup", n, "", FALSE, 0, None,
                              Result(FALSE, MsgNotFound, None, 404)), raw)
                 /\ UNCHANGED req
            ELSE /\ req' = [req EXCEPT ![t] =
                      [IdleReq EXCEPT !.op = "simulate", !.pc = "s_update", !.name = n]]
                 /\ out' = NoOut
  /\ UNCHANGED <<stores, ns, rel, task, drawn, clock>>

\* provisioner._update_store_status(normalized, READY, url=f"http://{normalized}.local")
SimulateUpdate(t) ==
  /\ req[t].pc = "s_update"
  /\ LET n == req[t].name
     IN \E now \in NowSet :
          /\ stores' = UpdateStoreStatus(stores, n, READY,
                                         <<"http://">> \o n \o <<".local">>,
                                         None, None, now)
          /\ clock' = ClockAfterUpdate(stores, n, now)
  /\ req' = Disturb([req EXCEPT ![t].pc = "s_return"], req[t].name)
  /\ out' = NoOut
  /\ UNCHANGED <<ns, rel, task, drawn, calls>>

\* format_store(provisioner.get_store(normalized)): a record evicted meanwhile
\* makes format_store fail on None (a 500)
SimulateReturn(t) ==
  /\ req[t].pc = "s_return"
  /\ LET n == req[t].name
         store == GetStoreCopy(stores, n)
     IN out' = Returned("simulate", "return", n, "", FALSE, 0, None,
                  Result(Truthy(store), None, store,
                         IF Truthy(store) THEN 200 ELSE 500))
  /\ req' = [req EXCEPT ![t] = IdleReq]
  /\ UNCHANGED <<stores, ns, rel, task, drawn, clock, calls>>

\* ------------------------------------------------------------- the lock
\* the sections of the code, named by the position of the thread about to run
\* them ("sync" is the loop of _sync_stores_from_cluster): those run with
\* self._lock held
HoldsLock(pc) ==
  pc \in {"sync", "c_insert", "p_start", "p_finish", "d_mark", "d_deleted",
          "d_evict", "s_update", "s_return"}

\* the sections that read or write self._stores
TouchesRegistry(pc) ==
  pc \in {"sync", "c_insert", "c_return", "p_start", "p_finish", "d_mark",
          "d_deleted", "d_evict", "s_update", "s_return"}

\* the sections that wait for helm or for the cluster
Blocking(pc) ==
  pc \in {"sync", "p_install", "d_uninstall", "d_namespace", "g_resources"}

\* the sections some thread is about to run, or, for the reconciliation, has
\* just run
Positions ==
  { req[t].pc : t \in Threads } \cup { task[k].pc : k \in Ids }
    \cup (IF out.step = "sync" THEN {"sync"} ELSE {})

\* ------------------------------------------------------------- specification
Next ==
  \/ \E t \in Threads :
       \/ CreateCall(t) \/ CreateInsert(t) \/ CreateReturn(t)
       \/ DeleteCall(t) \/ DeleteMark(t) \/ DeleteUninstall(t) \/ DeleteNamespace(t)
       \/ DeleteMarkDeleted(t) \/ DeleteEvict(t) \/ DeleteFail(t)
       \/ GetStore(t) \/ ListStores(t) \/ StatusCall(t) \/ StatusResources(t)
       \/ SimulateCall(t) \/ SimulateUpdate(t) \/ SimulateReturn(t)
  \/ \E k \in Ids : ProvStart(k) \/ ProvInstall(k) \/ ProvFinish(k)
  \/ Restart

Spec == Init /\ [][Next]_vars

\* ------------------------------------------------------------- reconciliation alone
\* the names of the stores an earlier run, or another tool, may have left
LegacyNames ==
  { <<"l", "e", "g", "a", "c", "y">>, <<"s", "h", "o", "p">>, <<"a", "-", "b">> }

\* a cluster as the construction of the provisioner may find it: a namespace
\* is absent, plain (without the labels), unnamed (labelled as managed
\* but without the store-name label), managed, or misnamed (labelled for the
\* store but not named store-<n>); the registry is empty
SyncInit ==
  /\ ns \in [LegacyNames -> {"absent", "plain", "unnamed", "managed", "misnamed"}]
  /\ rel \in [LegacyNames -> BOOLEAN]
  /\ \A n \in LegacyNames : rel[n] => ns[n] # "absent"
  /\ stores = [n \in {} |-> None]
  /\ req = [t \in Threads |-> IdleReq]
  /\ task = [k \in Ids |-> NoTask]
  /\ drawn = 0
  /\ clock = 0
  /\ calls = 0
  /\ out = NoOut

\* self._sync_stores_from_cluster() in __init__
Reconcile ==
  /\ out.step # "sync"
  /\ \E listed \in SUBSET LegacyNames :
       /\ stores' = SyncOver(LegacyNames, ns, rel, listed)
       /\ out' = Synced("start", listed)
  /\ UNCHANGED <<ns, rel, req, task, drawn, clock, calls>>

SyncNext == Reconcile

SyncSpec == SyncInit /\ [][SyncNext]_vars

\* ------------------------------------------------------------- the clients alone
\* what a call to the cluster API may do: succeed, fail with an ApiException
\* of status 404, 409, 403 (permission) or 422 (validation), or fail with a
\* fault that is not an ApiException (a refused or lost connection surfaces
\* from the HTTP layer under the client)
ApiOutcomes == {"ok", "s404", "s409", "s403", "s422", "other"}

IsApiException(o) == o \in {"s404", "s409", "s403", "s422"}

\* the creates whose handler answers a 409 by itself
PlainCreates ==
  {"create_namespace", "create_pvc", "create_deployment", "create_ingress",
   "create_resource_quota"}

\* the creates whose handler makes a second API call on a 409
CreatesWithSecondCall == {"create_secret", "create_service"}

\* the reads that pass on every ApiException but a 404
ReadsReraising == {"get_namespace", "get_deployment_status", "get_store_resources"}

\* the reads that turn every ApiException into an empty answer
ReadsSwallowing == {"get_service_url", "list_store_namespaces"}

ClientOps ==
  PlainCreates \cup CreatesWithSecondCall \cup ReadsReraising \cup ReadsSwallowing
    \cup {"delete_namespace", "check_cluster_connection"}

\* how a call ends: a value returned to the caller (with its success field,
\* where it has one, and the flag it carries), or a fault raised to the caller
ClientReturned(ok, flag) == [op |-> "client", raised |-> FALSE, success |-> ok, flag |-> flag]

ClientRaised == [op |-> "client", raised |-> TRUE, success |-> FALSE, flag |-> None]

\* the methods of KubernetesClient, by the outcome first of their API call
\* and second of the call their 409 handler makes
ClientResult(op, first, second) ==
  IF op = "check_cluster_connection"
    THEN ClientReturned(first = "ok", None)
  ELSE IF ~IsApiException(first) /\ first # "ok"
    THEN ClientRaised
  ELSE IF op \in PlainCreates
    THEN IF first = "ok" THEN ClientReturned(TRUE, None)
         ELSE IF first = "s409" THEN ClientReturned(TRUE, <<"already_exists">>)
         ELSE ClientReturned(FALSE, <<"error">>)
  ELSE IF op \in CreatesWithSecondCall
    THEN IF first = "ok" THEN ClientReturned(TRUE, None)
         ELSE IF first = "s409"
           THEN IF second = "ok"
                  THEN ClientReturned(TRUE, IF op = "create_secret"
                                              THEN <<"updated">>
                                              ELSE <<"already_exists">>)
                  ELSE ClientRaised
         ELSE ClientReturned(FALSE, <<"error">>)
  ELSE IF op = "delete_namespace"
    THEN IF first = "ok" THEN ClientReturned(TRUE, None)
         ELSE IF first = "s404" THEN ClientReturned(TRUE, <<"already_deleted">>)
         ELSE ClientReturned(FALSE, <<"error">>)
  ELSE IF op \in ReadsReraising
    THEN IF first = "ok" THEN ClientReturned(TRUE, None)
         ELSE IF first = "s404" THEN ClientReturned(FALSE, <<"not_found">>)
         ELSE ClientRaised
  ELSE IF first = "ok" THEN ClientReturned(TRUE, None)
                       ELSE ClientReturned(FALSE, <<"empty">>)

\* what helm uninstall may do: succeed, exit non-zero saying the release is
\* not found, exit non-zero otherwise, or run into the subprocess timeout
HelmOutcomes == {"ok", "not_found", "error", "timeout"}

\* HelmManager.uninstall_release over _run_helm_command
UninstallRelease(outcome) ==
  IF outcome = "ok" THEN ClientReturned(TRUE, None)
  ELSE IF outcome = "not_found" THEN ClientReturned(TRUE, <<"already_deleted">>)
  ELSE ClientReturned(FALSE, <<"error">>)

\* a call about to be made (kept in req) and no answer yet (out); the
\* registry and the cluster play no part
ClientInit ==
  /\ req \in [op : ClientOps \cup {"uninstall_release"},
              first : ApiOutcomes \cup HelmOutcomes,
              second : ApiOutcomes]
  /\ req.first \in (IF req.op = "uninstall_release" THEN HelmOutcomes ELSE ApiOutcomes)
  /\ req.op \notin CreatesWithSecondCall => req.second = "ok"
  /\ out = NoOut
  /\ stores = [n \in {} |-> None]
  /\ ns = [n \in Names |-> "absent"]
  /\ rel = [n \in Names |-> FALSE]
  /\ task = [k \in Ids |-> NoTask]
  /\ drawn = 0
  /\ clock = 0
  /\ calls = 0

\* a method of KubernetesClient runs
ClientCall ==
  /\ out = NoOut
  /\ req.op \in ClientOps
  /\ out' = ClientResult(req.op, req.first, req.second)
  /\ UNCHANGED <<stores, ns, rel, req, task, drawn, clock, calls>>

\* HelmManager.uninstall_release runs
UninstallCall ==
  /\ out = NoOut
  /\ req.op = "uninstall_release"
  /\ out' = UninstallRelease(req.first)
  /\ UNCHANGED <<stores, ns, rel, req, task, drawn, clock, calls>>

ClientNext == ClientCall \/ UninstallCall

ClientSpec == ClientInit /\ [][ClientNext]_vars

\* ------------------------------------------------------------- get_provisioner
\* the requests the process serves while its provisioner is being built
MaxRequests == 3

\* The routes call get_provisioner() at each request, in the thread of the
\* request; nothing calls it at start-up.  Here task holds the module global
\* _provisioner (0 for None, else the number of a StoreProvisioner object),
\* drawn counts the objects built, stores lists the registry of each object
\* as the names of its records, and req holds, for each thread, its request
\* (op), its position in get_provisioner (pc) and the object it got (mine).
BootIdle == [op |-> "idle", pc |-> "idle", mine |-> 0]

\* an answer: the object that served the request, and the names it listed
BootAnswer(op, inst, ok, names) ==
  [op |-> op, inst |-> inst, success |-> ok, names |-> names]

BootInit ==
  /\ ns \in [Names -> {"absent", "managed"}]
  /\ rel \in [Names -> BOOLEAN]
  /\ \A n \in Names : rel[n] => ns[n] = "managed"
  /\ stores = <<>>
  /\ task = [provisioner |-> 0]
  /\ req = [t \in Threads |-> BootIdle]
  /\ drawn = 0
  /\ clock = 0
  /\ calls = 0
  /\ out = NoOut

\* a request for the stores arrives: a create or a list
BootArrive(t) ==
  /\ req[t].pc = "idle"
  /\ calls < MaxRequests
  /\ calls' = calls + 1
  /\ \E op \in {"create", "list"} :
       req' = [req EXCEPT ![t] = [op |-> op, pc |-> "gp_test", mine |-> 0]]
  /\ out' = NoOut
  /\ UNCHANGED <<stores, ns, rel, task, drawn, clock>>

\* if _provisioner is None:
GetProvisionerTest(t) ==
  /\ req[t].pc = "gp_test"
  /\ req' = [req EXCEPT ![t].pc = IF task.provisioner = 0 THEN "gp_build"
                                                           ELSE "gp_return"]
  /\ out' = NoOut
  /\ UNCHANGED <<stores, ns, rel, task, drawn, clock, calls>>

\* StoreProvisioner(in_cluster=..., domain_suffix=...): a new object with
\* its own registry, filled by _sync_stores_from_cluster; or the
\* construction raises (no cluster configuration, no helm) and the request
\* fails
GetProvisionerBuild(t) ==
  /\ req[t].pc = "gp_build"
  /\ \/ /\ \E listed \in SUBSET Names :
             stores' = Append(stores, DOMAIN SyncStoresFromCluster(ns, rel, listed))
        /\ drawn' = drawn + 1
        /\ req' = [req EXCEPT ![t].pc = "gp_assign", ![t].mine = drawn + 1]
        /\ out' = NoOut
     \/ /\ out' = BootAnswer(req[t].op, 0, FALSE, {})
        /\ req' = [req EXCEPT ![t] = BootIdle]
        /\ UNCHANGED <<stores, drawn>>
  /\ UNCHANGED <<ns, rel, task, clock, calls>>

\* _provisioner = <the object built>
GetProvisionerAssign(t) ==
  /\ req[t].pc = "gp_assign"
  /\ task' = [provisioner |-> req[t].mine]
  /\ req' = [req EXCEPT ![t].pc = "gp_return"]
  /\ out' = NoOut
  /\ UNCHANGED <<stores, ns, rel, drawn, clock, calls>>

\* return _provisioner: the global is read again
GetProvisionerReturn(t) ==
  /\ req[t].pc = "gp_return"
  /\ req' = [req EXCEPT ![t].pc = "serve", ![t].mine = task.provisioner]
  /\ out' = NoOut
  /\ UNCHANGED <<stores, ns, rel, task, drawn, clock, calls>>

\* the route serves the request on the object it got: a create adds a
\* record to that object's registry unless the name is there, a list
\* returns the names of that registry
BootServe(t) ==
  /\ req[t].pc = "serve"
  /\ LET i == req[t].mine
     IN IF req[t].op = "create"
          THEN \E n \in Names :
                 /\ stores' = [stores EXCEPT ![i] = @ \cup {n}]
                 /\ out' = BootAnswer("create", i, n \notin stores[i], {n})
          ELSE /\ out' = BootAnswer("list", i, TRUE, stores[i])
               /\ UNCHANGED stores
  /\ req' = [req EXCEPT ![t] = BootIdle]
  /\ UNCHANGED <<ns, rel, task, drawn, clock, calls>>

BootNext ==
  \E t \in Threads :
    \/ BootArrive(t)
    \/ GetProvisionerTest(t)
    \/ GetProvisionerBuild(t)
    \/ GetProvisionerAssign(t)
    \/ GetProvisionerReturn(t)
    \/ BootServe(t)

BootSpec == BootInit /\ [][BootNext]_vars

\* ------------------------------------------------------------- scheduling
\* the steps of a request thread after the arrival of its request
Served(t) ==
  \/ CreateInsert(t) \/ CreateReturn(t)
  \/ DeleteMark(t) \/ DeleteUninstall(t) \/ DeleteNamespace(t)
  \/ DeleteMarkDeleted(t) \/ DeleteEvict(t) \/ DeleteFail(t)
  \/ StatusResources(t) \/ SimulateUpdate(t) \/ SimulateReturn(t)

\* the steps of a provisioning thread
TaskStep(k) == ProvStart(k) \/ ProvInstall(k) \/ ProvFinish(k)

\* every thread that can take a step is scheduled, and every call to helm
\* or to the cluster returns
FairRunSpec ==
  /\ Spec
  /\ \A t \in Threads : WF_vars(Served(t))
  /\ \A k \in Ids : WF_vars(TaskStep(k))

\* ------------------------------------------------------------- claims
\* the statuses the specification calls active
Active(S, n) ==
  /\ n \in DOMAIN S
  /\ S[n].status \in {PENDING, PROVISIONING, READY, DELETING}

\* thread t takes the step from pc a to pc b
Steps(t, a, b) == req[t].pc = a /\ req'[t].pc = b

\* the step is the arrival of a call that op rejects at once
Rejects(op) == calls' = calls + 1 /\ out'.op = op

\* the step is the arrival of a call of op that a thread goes on serving
Admits(t, op) == req[t].op = "idle" /\ req'[t].op = op

PermittedEdges ==
  { <<PENDING, PROVISIONING>>, <<PROVISIONING, READY>>, <<PROVISIONING, FAILED>>,
    <<READY, DELETING>>, <<DELETING, DELETED>> }
  \cup { <<st, FAILED>> : st \in StoreStatus }

ForcedDeleteMarks(n) ==
  \E t \in Threads :
    Steps(t, "d_mark", "d_uninstall") /\ req[t].name = n /\ req[t].force

C2_AsClaimed ==
  [][ \A n \in DOMAIN stores \cap DOMAIN stores' :
        (stores'[n].id = stores[n].id /\ stores'[n].status # stores[n].status) =>
          \/ <<stores[n].status, stores'[n].status>> \in PermittedEdges
          \/ /\ stores[n].status = PROVISIONING
             /\ stores'[n].status = DELETING
             /\ ForcedDeleteMarks(n)
    ]_vars

\* C3, as stated: a create with a supported type succeeds whenever the name
\* has no record or a failed or deleted one: it is rejected for the name only
\* when the record is active, its insertion leaves under the name a fresh
\* record (a token no record had, status pending, url, error and credentials
\* null) in place of the prior one, and it returns success.
C3_AsClaimed ==
  [][ /\ (Rejects("create") /\ out'.step = "check") => Active(stores, out'.name)
      /\ \A t \in Threads :
           Steps(t, "c_insert", "c_return") =>
             LET n == req[t].name
             IN /\ n \in DOMAIN stores'
                /\ stores'[n].id = TokenHex(req'[t].id)
                /\ \A m \in DOMAIN stores : stores[m].id # stores'[n].id
                /\ stores'[n].status = PENDING
                /\ stores'[n].url = None
                /\ stores'[n].error = None
                /\ stores'[n].credentials = None
      /\ \A t \in Threads :
           Steps(t, "c_return", "idle") => (out'.res.success /\ out'.res.http = 201)
    ]_vars

\* C4: when delete_store returns success the registry has no record of the
\* name, a name without a record gets one only by the insertion of a create
\* (or, at a restart, from a labelled namespace, which a successful delete
\* has removed and nothing puts back), and as long as it has none get_store
\* answers not-found (404) and list_stores does not list it.
C4_DeletedIsGone ==
  [][ /\ (out'.op = "delete" /\ out'.res.success) =>
           /\ out'.name \notin DOMAIN stores'
           /\ ns'[out'.name] # "managed"
      /\ \A n \in Names :
           /\ ns'[n] = "managed" => ns[n] = "managed"
           /\ (n \notin DOMAIN stores /\ n \in DOMAIN stores') =>
                \/ \E t \in Threads :
                     Steps(t, "c_insert", "c_return") /\ req[t].name = n
                \/ Rejects("restart") /\ ns[n] = "managed"
      /\ (Rejects("get") /\ out'.name \notin DOMAIN stores) =>
           (~out'.res.success /\ out'.res.http = 404 /\ out'.res.store = None)
      /\ Rejects("list") => DOMAIN out'.res.store[1] = DOMAIN stores
    ]_vars

\* a delete has returned success for a store that was in the registry
C4_Witness ==
  /\ out.op = "delete"
  /\ out.res.success
  /\ out.res.http = 200
  /\ out.name \notin DOMAIN stores
  /\ ns[out.name] = "absent"

\* C5: an unforced delete of a record whose status is provisioning returns the
\* 'still provisioning' failure, starts no thread of deletion (no uninstall,
\* no namespace delete) and changes neither the registry nor the cluster.
C5_StillProvisioningRejected ==
  [][ /\ \A t \in Threads :
           (Admits(t, "delete") /\ ~req'[t].force) =>
             stores[req'[t].name].status # PROVISIONING
      /\ ( /\ Rejects("delete")
           /\ ~out'.force
           /\ out'.name \in DOMAIN stores
           /\ stores[out'.name].status = PROVISIONING ) =>
           /\ ~out'.res.success
           /\ out'.res.error = MsgStillProvisioning
           /\ stores' = stores
           /\ req' = req
           /\ ns' = ns /\ rel' = rel
    ]_vars

C5_Witness ==
  /\ out.op = "delete"
  /\ ~out.force
  /\ out.res.error = MsgStillProvisioning
  /\ out.name \in DOMAIN stores
  /\ stores[out.name].status = PROVISIONING

\* C6, as stated: when the uninstall step or the namespace delete of
\* delete_store fails otherwise than by already-gone, delete_store returns
\* failure, the record is failed with an error beginning 'Deletion failed:',
\* and the record is still in the registry.
C6_AsClaimed ==
  ( /\ out.op = "delete"
    /\ out.step \in {"evict", "except"}
    /\ (out.note = MsgUninstallFailed \/ out.step = "except") ) =>
      /\ ~out.res.success
      /\ out.name \in DOMAIN stores
      /\ stores[out.name].status = FAILED
      /\ stores[out.name].error # None
      /\ stores[out.name].error[1] = "Deletion failed: "

\* no request is being served and no provisioning task is running
Quiescent ==
  /\ \A t \in Threads : req[t].op = "idle"
  /\ \A k \in Ids : task[k].pc \in {"none", "done"}

\* C7, as stated: with nothing in flight, a name without a registry record
\* has in the cluster no namespace and no release that this system's install
\* left there.
C7_AsClaimed ==
  Quiescent =>
    \A n \in Names : n \notin DOMAIN stores => ns[n] # "plain"

\* the threads of provisioning are scheduled: a task that can take its next
\* step does take it
FairSpec ==
  /\ Spec
  /\ \A k \in Ids :
       WF_vars(ProvStart(k)) /\ WF_vars(ProvInstall(k)) /\ WF_vars(ProvFinish(k))

\* a delete has got past the lookup of delete_store
DeleteServed == \E t \in Threads : req[t].op = "delete"

\* the process has just been started again
Restarted == out.op = "restart"

\* the record of the name is ready as the installer call of task k left it
ReadyAsInstalled(k) ==
  \E n \in DOMAIN stores :
    /\ stores[n].status = READY
    /\ stores[n].url = GenerateStoreUrl(n)
    /\ stores[n].credentials = Credentials(k, IngressHost(n))

\* C8: as long as no delete is served and the process runs on, the task a create launched comes to
\* the end of its installer call, and once the installer call has succeeded
\* the record of the name eventually is ready with the url
\* http://<normalized name><domain suffix> and the installer's credentials.
C8_EventuallyReady ==
  \A k \in Ids :
    ([](~DeleteServed /\ ~Restarted)) =>
      /\ (task[k].pc \in {"p_start", "p_install"}) ~> (task[k].pc = "p_finish")
      /\ (task[k].pc = "p_finish" /\ task[k].out = "ok") ~> ReadyAsInstalled(k)

C8_Witness ==
  /\ task[1].pc = "done"
  /\ ReadyAsInstalled(1)

\* C9, as stated: the record a successful asynchronous create returns has
\* status provisioning and url null.
C9_AsClaimed ==
  (out.op = "create" /\ out.step = "return" /\ out.async /\ out.res.success) =>
    /\ out.res.store[1].status = PROVISIONING
    /\ out.res.store[1].url = None

\* C9, amended: the record a successful asynchronous create returns has
\* status pending or provisioning and url null, whenever between the
\* insertion and the return nothing but the start of the provisioning task
\* has written the entry (no end of a provisioning task, no delete, no
\* simulate-ready).
C9_PendingOrProvisioning ==
  ( /\ out.op = "create" /\ out.step = "return" /\ out.async
    /\ out.res.success /\ out.clean ) =>
      /\ out.res.store[1].status \in {PENDING, PROVISIONING}
      /\ out.res.store[1].url = None
      /\ out.res.http = 201

C9_Witness ==
  /\ out.op = "create" /\ out.step = "return" /\ out.async
  /\ out.res.success /\ out.clean
  /\ out.res.store[1].status = PENDING

\* C10, as stated: a create that was admitted and has inserted its record
\* returns success with a copy of that very record (same id and name), also
\* when a delete or another create of the name runs in between.
C10_AsClaimed ==
  (out.op = "create" /\ out.step = "return") =>
    /\ out.res.success
    /\ out.res.store # None
    /\ out.res.store[1].id = TokenHex(out.id)
    /\ out.res.store[1].name = out.name

\* C11, as stated: a store that create_store provisioned to ready (its
\* record ready with the installer's credentials, its release and namespace
\* in the cluster, helm able to list them) has a ready record again after a
\* restart and its reconciliation.
C11_AsClaimed ==
  [][ Rejects("restart") =>
        \A n \in DOMAIN stores :
          ( /\ stores[n].status = READY
            /\ stores[n].credentials # None
            /\ rel[n] /\ ns[n] # "absent"
            /\ n \in out'.listed ) =>
              (n \in DOMAIN stores' /\ stores'[n].status = READY)
    ]_vars

\* C12: after a reconciliation, every labelled namespace store-<n> holding a
\* woocommerce release that helm listed has a record named <n> with status
\* ready, type woocommerce, no credentials, the admin email unknown, the id
\* derived from the name, and created_at and updated_at those of the
\* namespace; nothing else has a record.
C12_LegacyRestored ==
  out.step = "sync" =>
    /\ \A n \in Names :
         (ns[n] = "managed" /\ rel[n] /\ n \in out.listed) =>
           /\ n \in DOMAIN stores
           /\ stores[n].name = n
           /\ stores[n].status = READY
           /\ stores[n].type = WOOCOMMERCE
           /\ stores[n].credentials = None
           /\ stores[n].error = None
           /\ stores[n].admin_email = UnknownAdminEmail
           /\ stores[n].id = Md5Id(n)
           /\ stores[n].url = GenerateStoreUrl(n)
           /\ stores[n].created_at = NamespaceCreatedAt(n)
           /\ stores[n].updated_at = NamespaceCreatedAt(n)
    /\ \A n \in DOMAIN stores : ns[n] = "managed" /\ rel[n] /\ n \in out.listed

C12_Witness ==
  /\ out.op = "start"
  /\ \E n \in DOMAIN stores :
       /\ ns[n] = "managed" /\ rel[n] /\ n \in out.listed
       /\ stores[n].status = READY
       /\ stores[n].id = Md5Id(n)

\* C13, as stated: no record whose status is not ready carries a url.
C13_AsClaimed ==
  \A n \in DOMAIN stores : stores[n].url # None => stores[n].status = READY

\* C13, amended: a record gets a url only together with status ready: it is
\* null at insertion, and it is set or changed only by the update that makes
\* the record ready or by the reconciliation, which builds ready records; no
\* later status change clears it.
C13_UrlSetWithReady ==
  /\ \A n \in DOMAIN stores : stores[n].url # None => stores[n].status = READY
  /\ [][ \A n \in DOMAIN stores' :
           /\ ( /\ stores'[n].url # None
                /\ \/ n \notin DOMAIN stores
                   \/ stores[n].id # stores'[n].id
                   \/ stores[n].url # stores'[n].url ) => stores'[n].status = READY
           /\ ( /\ n \in DOMAIN stores
                /\ stores[n].id = stores'[n].id
                /\ stores[n].url # None ) => stores'[n].url # None
       ]_vars

\* a store made ready by its provisioning is being deleted and keeps its url
C13_Witness ==
  \E n \in DOMAIN stores :
    /\ stores[n].status = DELETING
    /\ stores[n].url = GenerateStoreUrl(n)
    /\ stores[n].credentials # None

\* C14, as stated: every section that reads or writes the registry runs with
\* the registry lock held.
C14_AsClaimed ==
  \A pc \in Positions : TouchesRegistry(pc) => HoldsLock(pc)

\* C15, as stated: no section that waits for helm or for the cluster runs
\* with the registry lock held.
C15_AsClaimed ==
  \A pc \in Positions : Blocking(pc) => ~HoldsLock(pc)

C17_AbsentInstallDeleted ==
  ( /\ out.op = "delete"
    /\ out.step \in {"evict", "except"}
    /\ out.gone = <<"release", "namespace">> ) =>
      /\ out.step = "evict"
      /\ out.res.success
      /\ out.res.http = 200
      /\ out.res.error = MsgDeleted(out.name)
      /\ out.name \notin DOMAIN stores

\* the delete of a failed record whose install left nothing
C17_Witness ==
  /\ out.op = "delete"
  /\ out.step = "evict"
  /\ out.gone = <<"release", "namespace">>
  /\ out.res.success
  /\ task[1].pc = "done"

\* the types the engine's test lets through
SupportedAsTyped == { ty \in RawTypes : LowerType(ty) = WOOCOMMERCE }

\* C18: a create with an unsupported store type is answered where it
\* arrives with a failure (400 by the route), is never admitted, and leaves
\* the registry, the provisioning tasks, the tokens and the other requests
\* as they were.
C18_UnsupportedTypeRejected ==
  [][ /\ \A t \in Threads :
           Admits(t, "create") => req'[t].stype \in SupportedAsTyped
      /\ (Rejects("create") /\ out'.stype \notin SupportedAsTyped) =>
           /\ ~out'.res.success
           /\ out'.step \in {"route", "type"}
           /\ out'.step = "route" => out'.res.http = 400
           /\ out'.step = "type" => out'.res.error = MsgOnlyWoo
           /\ stores' = stores
           /\ task' = task
           /\ drawn' = drawn
           /\ req' = req
    ]_vars

C18_Witness ==
  /\ out.op = "create"
  /\ out.step = "route"
  /\ out.stype = "shopify"
  /\ out.res.http = 400
  /\ out.name \notin DOMAIN stores

\* the normalized form of every name of RawNames
CanonicalName == <<"a", "-", "b">>

\* C19: on create, get, status, delete (and simulate-ready) the name the
\* engine uses is the normalization of the name as typed, normalizing it
\* again changes nothing, the three spellings give one and the same name,
\* and a lookup answers with the record the registry holds under that name.
C19_OneNormalizedName ==
  /\ DOMAIN stores \subseteq {CanonicalName}
  /\ out.raw # <<>> =>
       /\ out.name = Normalize(out.raw)
       /\ Normalize(out.name) = out.name
       /\ out.name = CanonicalName
       /\ out.op \in {"get", "status"} =>
            /\ out.res.success <=> CanonicalName \in DOMAIN stores
            /\ out.res.success => out.res.store = <<stores[CanonicalName]>>
       /\ (out.op = "delete" /\ out.res.error = MsgNotFound) =>
            CanonicalName \notin DOMAIN stores
       /\ (out.op = "create" /\ out.step = "check") =>
            CanonicalName \in DOMAIN stores

C19_Witness ==
  /\ out.op = "get"
  /\ out.raw = <<"a", "_", "b">>
  /\ out.res.success
  /\ out.res.store[1].id = TokenHex(1)
  /\ out.res.store[1].name = CanonicalName

\* C20, as stated: a record's updated_at is never before its created_at,
\* and every change of its status strictly increases its updated_at (looked
\* at where the clock had a later reading to give).
C20_AsClaimed ==
  [][ \A n \in DOMAIN stores \cap DOMAIN stores' :
        stores'[n].id = stores[n].id =>
          /\ stores'[n].updated_at >= stores'[n].created_at
          /\ (stores'[n].status # stores[n].status /\ clock < MaxClock) =>
               stores'[n].updated_at > stores[n].updated_at
    ]_vars

\* C21, as stated: a DELETE through the route for a record that is still
\* provisioning, without force, is answered with 409 or 400 and the 'still
\* provisioning' error, and leaves the record as it was.
C21_AsClaimed ==
  [][ (Rejects("delete") /\ out'.res.error = MsgStillProvisioning) =>
        /\ out'.res.http \in {409, 400}
        /\ stores' = stores
    ]_vars

\* C22: get_store_status succeeds with the record whenever there is one: at
\* once, without resources, when the status is neither provisioning nor
\* ready, and otherwise after the enumeration of the cluster, whose failure
\* only leaves the resources out; only a missing record fails the call.
C22_StatusSurvivesResources ==
  [][ /\ Rejects("status") =>
           IF out'.name \in DOMAIN stores
             THEN /\ out'.res.success
                  /\ out'.res.http = 200
                  /\ out'.res.store = <<stores[out'.name]>>
                  /\ out'.note = None
                  /\ stores[out'.name].status \notin {PROVISIONING, READY}
             ELSE ~out'.res.success /\ out'.res.error = MsgNotFound
      /\ \A t \in Threads :
           /\ Admits(t, "status") =>
                /\ req'[t].name \in DOMAIN stores
                /\ req'[t].copy = <<stores[req'[t].name]>>
                /\ stores[req'[t].name].status \in {PROVISIONING, READY}
                /\ req'[t].pc = "g_resources"
           /\ (Steps(t, "g_resources", "idle") /\ out'.op # "restart") =>
                /\ out'.op = "status"
                /\ out'.step = "resources"
                /\ out'.res.success
                /\ out'.res.http = 200
                /\ out'.res.store = req[t].copy
                /\ out'.note \in {<<"resources">>, <<"namespace_not_found">>, None}
    ]_vars

C22_Witness ==
  /\ out.op = "status"
  /\ out.step = "resources"
  /\ out.note = None
  /\ out.res.success
  /\ out.res.store[1].status = PROVISIONING

\* C23: a forced delete is rejected only when there is no record; on a
\* provisioning record it is admitted, marks the record deleting, and goes on
\* to the uninstall and then, unless the uninstall raises, to the delete of
\* the namespace.
C23_ForcedDeleteProceeds ==
  [][ /\ (Rejects("delete") /\ out'.force) =>
           /\ out'.name \notin DOMAIN stores
           /\ out'.res.error = MsgNotFound
      /\ \A t \in Threads :
           /\ (Admits(t, "delete") /\ req'[t].force) =>
                /\ req'[t].pc = "d_mark"
                /\ req'[t].copy = <<stores[req'[t].name]>>
           /\ (req[t].pc = "d_mark" /\ req[t].force /\ req'[t] # req[t]
               /\ out'.op # "restart") =>
                /\ req'[t].pc = "d_uninstall"
                /\ req[t].name \in DOMAIN stores =>
                     stores'[req[t].name].status = DELETING
           /\ (req[t].pc = "d_uninstall" /\ req[t].force /\ req'[t] # req[t]
               /\ out'.op # "restart") =>
                \/ req'[t].pc = "d_namespace"
                \/ /\ req'[t].pc = "idle"
                   /\ out'.step = "except"
                   /\ out'.res.error = MsgUninstallRaised
           /\ (req[t].pc = "d_namespace" /\ req[t].force /\ req'[t] # req[t]
               /\ out'.op # "restart") =>
                \/ req'[t].pc = "d_deleted" /\ ns'[req[t].name] = "absent"
                \/ /\ req'[t].pc = "idle"
                   /\ out'.step = "except"
                   /\ out'.res.error = MsgNsDeleteFailed
    ]_vars

C23_Witness ==
  \E t \in Threads :
    /\ req[t].pc = "d_deleted"
    /\ req[t].force
    /\ req[t].copy[1].status = PROVISIONING
    /\ req[t].name \in DOMAIN stores
    /\ stores[req[t].name].status = DELETING

\* C24, as stated: of two concurrent creates for one name that had no record,
\* only one inserts a record and launches a provisioning thread, so that no
\* insertion finds under its name the pending or provisioning record of
\* another create whose thread is still running.
C24_AsClaimed ==
  [][ \A t \in Threads :
        Steps(t, "c_insert", "c_return") =>
          ~ \E k \in Ids :
              /\ task[k].pc \notin {"none", "done"}
              /\ task[k].name = req[t].name
              /\ req[t].name \in DOMAIN stores
              /\ stores[req[t].name].id = TokenHex(k)
              /\ stores[req[t].name].status \in {PENDING, PROVISIONING}
    ]_vars

\* C25, as stated: the record a delete evicts is the one it looked up and
\* marked, never a record a concurrent create has inserted meanwhile.
C25_AsClaimed ==
  [][ \A t \in Threads :
        (Steps(t, "d_evict", "idle") /\ out'.step = "evict"
         /\ req[t].name \in DOMAIN stores) =>
          stores[req[t].name].id = req[t].copy[1].id
    ]_vars

\* C26, as stated: a status update of provisioning thread k changes only
\* the record its create inserted, and a record holds credentials only if
\* they are those of the install launched for it.
C26_AsClaimed ==
  [][ /\ \A k \in Ids :
           ( /\ task[k].pc \in {"p_start", "p_finish"}
             /\ task'[k].pc \in {"p_install", "done"}
             /\ stores' # stores ) =>
               stores[task[k].name].id = TokenHex(k)
      /\ \A n \in DOMAIN stores' :
           stores'[n].credentials # None =>
             \E k \in Ids : /\ stores'[n].id = TokenHex(k)
                            /\ stores'[n].credentials = Credentials(k, IngressHost(n))
    ]_vars

\* the registry holds the record create number k inserted
Inserted(k) == \E n \in DOMAIN stores : stores[n].id = TokenHex(k)

\* the record of create number k is ready, failed or out of the registry
Settled(k) ==
  \A n \in DOMAIN stores :
    stores[n].id = TokenHex(k) => stores[n].status \in {READY, FAILED}

\* C27: with every thread scheduled and every call to helm and to the
\* cluster returning, a record inserted by a create is, from any point on,
\* eventually ready, failed or out of the registry: it does not stay
\* pending, provisioning, deleting or deleted.
C27_RecordsSettle == \A k \in Ids : Inserted(k) ~> Settled(k)

C27_Witness ==
  /\ task[1].pc = "done"
  /\ \E t \in Threads : req[t].op = "delete" /\ req[t].pc = "d_namespace"
  /\ \E n \in DOMAIN stores : stores[n].id = TokenHex(1) /\ stores[n].status = DELETING

\* C28: after a reconciliation, a managed namespace whose releases helm could
\* not list, or none of whose releases is a woocommerce one, has no record,
\* and every other managed namespace with a listed woocommerce release has a
\* ready record, whatever the former are.
C28_UnknownTypeSkipped ==
  out.step = "sync" =>
    \A n \in DOMAIN ns :
      IF Labelled(ns[n]) /\ n \in out.listed /\ rel[n]
        THEN /\ n \in DOMAIN stores
             /\ stores[n] = [SyncedRecord(n, NamespaceCreatedAt(n))
                               EXCEPT !.namespace = stores[n].namespace]
             /\ stores[n].status = READY
        ELSE n \notin DOMAIN stores

C28_Witness ==
  /\ out.step = "sync"
  /\ \E n, m, l \in DOMAIN ns :
       /\ ns[n] = "managed" /\ n \in out.listed /\ ~rel[n] /\ n \notin DOMAIN stores
       /\ ns[l] = "managed" /\ l \notin out.listed /\ rel[l] /\ l \notin DOMAIN stores
       /\ ns[m] = "managed" /\ m \in DOMAIN stores /\ stores[m].status = READY

\* C29: within a record, the error changes only in a step that leaves the
\* status failed, and then to a message; an error once set is never cleared
\* by a later update, so that a record may be ready and carry the error of
\* an earlier failure.  (A restart builds a new registry.)
C29_ErrorOnlyOnFailure ==
  [][ out'.op # "restart" =>
        \A n \in DOMAIN stores \cap DOMAIN stores' :
          stores'[n].id = stores[n].id =>
            /\ stores'[n].error # stores[n].error =>
                 /\ stores'[n].status = FAILED
                 /\ stores'[n].error # None
            /\ stores[n].error # None => stores'[n].error # None
    ]_vars

C29_Witness ==
  \E n \in DOMAIN stores :
    /\ stores[n].status = READY
    /\ stores[n].error = MsgDeletionFailed(MsgNsDeleteFailed)

\* C30: a record in the registry keeps its id, name, type, namespace,
\* admin_email and created_at: the entry of a name changes in these only when
\* a create inserts a new record under the name (or a restart builds a new
\* registry), so that an update leaves them alone and the id is the same
\* from the insertion to the eviction.
C30_IdentityKept ==
  [][ (drawn' = drawn /\ out'.op # "restart") =>
        \A n \in DOMAIN stores \cap DOMAIN stores' :
          /\ stores'[n].id = stores[n].id
          /\ stores'[n].name = stores[n].name
          /\ stores'[n].type = stores[n].type
          /\ stores'[n].namespace = stores[n].namespace
          /\ stores'[n].admin_email = stores[n].admin_email
          /\ stores'[n].created_at = stores[n].created_at
    ]_vars

C30_Witness ==
  \E n \in DOMAIN stores :
    /\ stores[n].id = TokenHex(1)
    /\ stores[n].status = READY
    /\ stores[n].credentials # None
    /\ stores[n].updated_at > stores[n].created_at

C32_AsClaimed == out.op = "client" => ~out.raised

\* C33, as stated: a create that meets 'already exists' returns success,
\* delete_namespace on a missing namespace returns success with
\* already_deleted, and so does the uninstall of a release that is not found.
C33_AsClaimed ==
  out.op = "client" =>
    /\ (req.op \in PlainCreates \cup CreatesWithSecondCall /\ req.first = "s409") =>
         ~out.raised /\ out.success
    /\ (req.op = "delete_namespace" /\ req.first = "s404") =>
         ~out.raised /\ out.success /\ out.flag = <<"already_deleted">>
    /\ (req.op = "uninstall_release" /\ req.first = "not_found") =>
         ~out.raised /\ out.success /\ out.flag = <<"already_deleted">>

\* C34: in every reachable state a record whose status is failed carries an
\* error message, neither null nor empty.
C34_FailedHasError ==
  \A n \in DOMAIN stores :
    stores[n].status = FAILED =>
      /\ stores[n].error # None
      /\ Len(stores[n].error) > 0

C34_Witness ==
  \E n \in DOMAIN stores :
    /\ stores[n].status = FAILED
    /\ stores[n].error = MsgDeletionFailed(MsgUninstallRaised)
    /\ stores[n].id = Md5Id(n)

\* C35, as stated: the process builds at most one StoreProvisioner, also
\* when its first requests arrive together, so that there is one registry
\* and a list shows every record any request has created.
C35_AsClaimed ==
  /\ drawn <= 1
  /\ (out.op = "list" /\ out.success) =>
       \A i \in DOMAIN stores : stores[i] \subseteq out.names

====
